---------------------------- MODULE Spec2Model ----------------------------
(***************************************************************************)
(* A model of sched/sched/sched_addreadytorun.c: the admission of a task   *)
(* that has just become runnable, in the uniprocessor build                *)
(* (!CONFIG_SMP) and in the SMP build (CONFIG_SMP).                        *)
(*                                                                         *)
(* One call of sched_addreadytorun() is one action: the caller holds a     *)
(* critical section for the whole call.  The TCB handed in (btcb) is a     *)
(* detached task whose fields the rest of the kernel has set; they are     *)
(* drawn from small sets when the call is made.                            *)
(*                                                                         *)
(* SpecSteps runs the SMP call in steps, one call on each CPU, so that the *)
(* calls of different CPUs interleave (the case the comment of lines       *)
(* 470-474 reports).  SpecCpulocked applies sched_cpulocked() to drawn     *)
(* inputs.                                                                 *)
(***************************************************************************)
EXTENDS Integers, Sequences, FiniteSets

VARIABLES
  CONFIG_SMP,        \* the build: TRUE for the SMP build
  g_os_initstate,    \* nx_start()'s progress
  tcb,               \* task id -> struct tcb_s
  g_readytorun,      \* list of task ids
  g_pendingtasks,    \* list of task ids
  g_assignedtasks,   \* cpu -> list of task ids (SMP)
  g_cpu_lockset,     \* bit set of the CPUs holding the pre-emption lock
  g_cpu_schedlock,   \* the spinlock that is locked while g_cpu_lockset # 0
  g_cpu_irqset,      \* bit set of the CPUs holding the IRQ lock
  g_cpu_irqlock,     \* the spinlock that is locked while g_cpu_irqset # 0
  asserted,          \* a DEBUGASSERT of the file has failed
  call,              \* the last call: its inputs, its entry state, its result
  pc,                \* cpu -> where its call stands (calls run in steps)
  loc,               \* cpu -> the local variables of its call
  g_cpu_irqsetlock,  \* the spinlock sched_cpulocked() takes
  g_cpu_paused,      \* cpu -> it spins in up_cpu_paused()
  pausedby,          \* cpu -> the CPU whose up_cpu_pause() addresses it
  asserts            \* the lines of the DEBUGASSERTs that have failed

vars == <<CONFIG_SMP, g_os_initstate, tcb, g_readytorun, g_pendingtasks,
          g_assignedtasks, g_cpu_lockset, g_cpu_schedlock, g_cpu_irqset,
          g_cpu_irqlock, asserted, call, pc, loc, g_cpu_irqsetlock,
          g_cpu_paused, pausedby, asserts>>

\* The variables only the calls in steps use.
stepvars == <<pc, loc, g_cpu_irqsetlock, g_cpu_paused, pausedby, asserts>>

---------------------------------------------------------------------------
(* Bounds of the model *)

\* Tasks that become runnable (besides the IDLE tasks).
NTASKS == 2

\* Priorities of the admitted tasks are 1..MaxPrio; an IDLE task has 0.
MaxPrio == 2

\* Number of CPUs of the SMP build (CONFIG_SMP_NCPUS).
CONFIG_SMP_NCPUS == 2

\* g_os_initstate value from which the task lists are in full use.
OSINIT_OSREADY == 5

CPUs == 0 .. (CONFIG_SMP_NCPUS - 1)

\* The IDLE task of CPU c is task c + 1; the other tasks follow.
IdleTask(c) == c + 1
IdleTasks == {IdleTask(c) : c \in CPUs}
UserTasks == (CONFIG_SMP_NCPUS + 1) .. (CONFIG_SMP_NCPUS + NTASKS)

\* One more task: the one that is already running when the calls in steps
\* start.
ResidentTask == CONFIG_SMP_NCPUS + NTASKS + 1
TaskIds == IdleTasks \cup UserTasks \cup {ResidentTask}

\* The value of pausedby[cpu] when no up_cpu_pause(cpu) is under way.
NoCpu == CONFIG_SMP_NCPUS

\* lockcount and irqcount are only ever compared with zero.
Counts == {0, 1}
---------------------------------------------------------------------------
(* Bit sets: (set & (1 << cpu)) != 0, set | (1 << cpu), set & ~(1 << cpu) *)

RECURSIVE Pow2(_)
Pow2(n) == IF n = 0 THEN 1 ELSE 2 * Pow2(n - 1)

BitIsSet(set, cpu) == (set \div Pow2(cpu)) % 2 = 1

BitOr(set, cpu) == IF BitIsSet(set, cpu) THEN set ELSE set + Pow2(cpu)

BitClr(set, cpu) == IF BitIsSet(set, cpu) THEN set - Pow2(cpu) ELSE set

---------------------------------------------------------------------------
(* sched_addprioritized(): insert before the first entry of strictly lower *)
(* priority; TRUE when the task is the new head of the list.               *)

InsertPos(T, btcb, list) ==
  IF \E i \in 1 .. Len(list) : T[list[i]].sched_priority < T[btcb].sched_priority
  THEN CHOOSE i \in 1 .. Len(list) :
         /\ T[list[i]].sched_priority < T[btcb].sched_priority
         /\ \A j \in 1 .. (i - 1) :
              ~(T[list[j]].sched_priority < T[btcb].sched_priority)
  ELSE Len(list) + 1

sched_addprioritized(T, btcb, list) ==
  LET pos == InsertPos(T, btcb, list)
  IN  [list |-> SubSeq(list, 1, pos - 1) \o <<btcb>> \o SubSeq(list, pos, Len(list)),
       ret  |-> (pos = 1)]

\* dq_rem(): unlink one entry.
dq_rem(node, list) ==
  LET i == CHOOSE k \in 1 .. Len(list) : list[k] = node
  IN  SubSeq(list, 1, i - 1) \o SubSeq(list, i + 1, Len(list))

\* sched_cpu_select(): the CPU of the affinity set that runs the task of lowest
\* priority, the lowest CPU number among equals.
sched_cpu_select(T, assigned, affinity) ==
  CHOOSE c \in affinity :
    \A d \in affinity :
      \/ T[Head(assigned[c])].sched_priority < T[Head(assigned[d])].sched_priority
      \/ /\ T[Head(assigned[c])].sched_priority = T[Head(assigned[d])].sched_priority
         /\ c <= d

\* spin_setbit() / spin_clrbit(): the bit set and the spinlock that follows it.
spin_setbit(set, cpu, orlock) ==
  [set    |-> BitOr(set, cpu),
   orlock |-> IF set = 0 /\ BitOr(set, cpu) # 0 THEN TRUE ELSE orlock]

spin_clrbit(set, cpu, orlock) ==
  [set    |-> BitClr(set, cpu),
   orlock |-> IF set # 0 /\ BitClr(set, cpu) = 0 THEN FALSE ELSE orlock]

spin_islocked(lock) == lock

---------------------------------------------------------------------------
(* The uniprocessor build: sched_addreadytorun(), lines 171-218 *)

\* Line 183 with <= for <: a task of equal priority counts as pre-empting.
up_preempt_blocked_le(T, rtcb, btcb) ==
  T[rtcb].lockcount > 0 /\ T[rtcb].sched_priority <= T[btcb].sched_priority

\* Line 183: the running task has pre-emption disabled and would be pre-empted.
up_preempt_blocked(T, rtcb, btcb) ==
  T[rtcb].lockcount > 0 /\ T[rtcb].sched_priority < T[btcb].sched_priority

\* Lines 196-207: btcb is the new head of g_readytorun.
up_new_head(T, rtcb, btcb, list) ==
  [tcb      |-> [T EXCEPT ![btcb].task_state = "TSTATE_TASK_RUNNING",
                          ![list[2]].task_state = "TSTATE_TASK_READYTORUN"],
   ret      |-> TRUE,
   asserted |-> ~(T[rtcb].lockcount = 0 /\ Len(list) > 1)]

\* Lines 208-214: btcb went into the middle of g_readytorun.
up_not_head(T, btcb) ==
  [tcb      |-> [T EXCEPT ![btcb].task_state = "TSTATE_TASK_READYTORUN"],
   ret      |-> FALSE,
   asserted |-> FALSE]

\* The whole function: the lists, the TCBs and the return value it leaves.
sched_addreadytorun_up(T, readytorun, pendingtasks, btcb) ==
  LET rtcb == Head(readytorun)     \* this_task()
  IN  IF up_preempt_blocked(T, rtcb, btcb)
      THEN [tcb          |-> [T EXCEPT ![btcb].task_state = "TSTATE_TASK_PENDING"],
            readytorun   |-> readytorun,
            pendingtasks |-> sched_addprioritized(T, btcb, pendingtasks).list,
            ret          |-> FALSE,
            asserted     |-> FALSE]
      ELSE LET add == sched_addprioritized(T, btcb, readytorun)
               r   == IF add.ret THEN up_new_head(T, rtcb, btcb, add.list)
                                 ELSE up_not_head(T, btcb)
           IN  [tcb          |-> r.tcb,
                readytorun   |-> add.list,
                pendingtasks |-> pendingtasks,
                ret          |-> r.ret,
                asserted     |-> r.asserted]

---------------------------------------------------------------------------
(* sched_cpulocked(), lines 75-137.  g_cpu_irqsetlock is taken on entry and  *)
(* released on every path before the return.                               *)

\* sched_cpulocked() without the test of g_os_initstate (lines 88-96).
sched_cpulocked_no_initstate(initstate, irqset, cpu) ==
  IF irqset # 0
  THEN ~BitIsSet(irqset, cpu)
  ELSE FALSE

\* sched_cpulocked() without the test of the caller's own bit (line 112).
sched_cpulocked_any_holder(initstate, irqset, cpu) ==
  IF initstate < OSINIT_OSREADY
  THEN FALSE
  ELSE irqset # 0

sched_cpulocked(initstate, irqset, cpu) ==
  IF initstate < OSINIT_OSREADY
  THEN FALSE
  ELSE IF irqset # 0
       THEN ~BitIsSet(irqset, cpu)
       ELSE FALSE

\* The DEBUGASSERTs of lines 105 and 125 (up_interrupt_context() is FALSE: the
\* caller is a task in a critical section).
sched_cpulocked_asserted(initstate, irqset, irqlock) ==
  IF initstate < OSINIT_OSREADY
  THEN FALSE
  ELSE IF irqset # 0
       THEN ~spin_islocked(irqlock)
       ELSE spin_islocked(irqlock)

---------------------------------------------------------------------------
(* The SMP build: sched_addreadytorun(), lines 255-493 *)

\* Lines 268-281 with sched_cpu_select() handed every CPU instead of
\* btcb->affinity.
candidate_cpu_any(T, assigned, btcb) ==
  IF T[btcb].cpu_locked
  THEN T[btcb].cpu
  ELSE sched_cpu_select(T, assigned, CPUs)

\* Lines 268-281: the CPU the task is locked to, or the one sched_cpu_select()
\* picks.
candidate_cpu(T, assigned, btcb) ==
  IF T[btcb].cpu_locked
  THEN T[btcb].cpu
  ELSE sched_cpu_select(T, assigned, T[btcb].affinity)

\* Lines 292-313 with the test of TCB_FLAG_CPU_LOCKED made first: a task locked
\* to a CPU is always to be ASSIGNED.
desired_state_locked_first(T, rtcb, btcb) ==
  IF T[btcb].cpu_locked
  THEN "TSTATE_TASK_ASSIGNED"
  ELSE IF T[rtcb].sched_priority < T[btcb].sched_priority
       THEN "TSTATE_TASK_RUNNING"
       ELSE "TSTATE_TASK_READYTORUN"

\* Lines 292-313 with the operands of the comparison of line 292 exchanged.
desired_state_swapped(T, rtcb, btcb) ==
  IF T[btcb].sched_priority < T[rtcb].sched_priority
  THEN "TSTATE_TASK_RUNNING"
  ELSE IF T[btcb].cpu_locked
       THEN "TSTATE_TASK_ASSIGNED"
       ELSE "TSTATE_TASK_READYTORUN"

\* Lines 292-313: the desired new task state.
desired_state(T, rtcb, btcb) ==
  IF T[rtcb].sched_priority < T[btcb].sched_priority
  THEN "TSTATE_TASK_RUNNING"
  ELSE IF T[btcb].cpu_locked
       THEN "TSTATE_TASK_ASSIGNED"
       ELSE "TSTATE_TASK_READYTORUN"

\* Lines 292-313: the cpu that goes with it.
desired_cpu(T, rtcb, btcb, cpu) ==
  IF T[rtcb].sched_priority < T[btcb].sched_priority
  THEN cpu
  ELSE IF T[btcb].cpu_locked
       THEN T[btcb].cpu
       ELSE 0

\* Lines 329-330 without the test of g_cpu_schedlock.
must_pend_ignores_schedlock(schedlock, cpulocked, task_state) ==
  cpulocked /\ task_state # "TSTATE_TASK_ASSIGNED"

\* Lines 329-330: the task must wait in g_pendingtasks.
must_pend(schedlock, cpulocked, task_state) ==
  (spin_islocked(schedlock) \/ cpulocked) /\ task_state # "TSTATE_TASK_ASSIGNED"

\* Lines 398-407: g_cpu_lockset and g_cpu_schedlock follow the new head.
adjust_lockset(T, btcb, cpu, lockset, schedlock) ==
  IF T[btcb].lockcount > 0
  THEN spin_setbit(lockset, cpu, schedlock)
  ELSE spin_clrbit(lockset, cpu, schedlock)

\* Lines 413-422 with the whole set cleared where the code clears the bit of
\* the CPU.
adjust_irqset_clears_all(T, btcb, cpu, irqset, irqlock) ==
  IF T[btcb].irqcount > 0
  THEN spin_setbit(irqset, cpu, irqlock)
  ELSE [set |-> 0, orlock |-> FALSE]

\* Lines 413-422 without the else branch: the bit is set and never cleared.
adjust_irqset_never_clears(T, btcb, cpu, irqset, irqlock) ==
  IF T[btcb].irqcount > 0
  THEN spin_setbit(irqset, cpu, irqlock)
  ELSE [set |-> irqset, orlock |-> irqlock]

\* Lines 413-422: g_cpu_irqset and g_cpu_irqlock follow the new head.
adjust_irqset(T, btcb, cpu, irqset, irqlock) ==
  IF T[btcb].irqcount > 0
  THEN spin_setbit(irqset, cpu, irqlock)
  ELSE spin_clrbit(irqset, cpu, irqlock)

\* Lines 430-462 without the test of line 450: a displaced head that is not
\* locked to the CPU always goes to g_readytorun.
rehome_next_never_pends(T, btcb, cpu, list, readytorun, pendingtasks, schedlock) ==
  LET next == list[2]
  IN  IF T[next].cpu_locked
      THEN [tcb          |-> [T EXCEPT ![next].task_state = "TSTATE_TASK_ASSIGNED"],
            assigned     |-> list,
            readytorun   |-> readytorun,
            pendingtasks |-> pendingtasks,
            asserted     |-> T[next].cpu # cpu]
      ELSE LET T1 == [T EXCEPT ![next].task_state = "TSTATE_TASK_READYTORUN"]
           IN  [tcb          |-> T1,
                assigned     |-> dq_rem(next, list),
                readytorun   |-> sched_addprioritized(T1, next, readytorun).list,
                pendingtasks |-> pendingtasks,
                asserted     |-> FALSE]

\* Lines 430-462 without the dq_rem() of line 442: the displaced head is linked
\* into its new list and stays in the assigned list.
rehome_next_no_rem(T, btcb, cpu, list, readytorun, pendingtasks, schedlock) ==
  LET next == list[2]
  IN  IF T[next].cpu_locked
      THEN [tcb          |-> [T EXCEPT ![next].task_state = "TSTATE_TASK_ASSIGNED"],
            assigned     |-> list,
            readytorun   |-> readytorun,
            pendingtasks |-> pendingtasks,
            asserted     |-> T[next].cpu # cpu]
      ELSE IF spin_islocked(schedlock)
           THEN LET T1 == [T EXCEPT ![next].task_state = "TSTATE_TASK_PENDING"]
                IN  [tcb          |-> T1,
                     assigned     |-> list,
                     readytorun   |-> readytorun,
                     pendingtasks |-> sched_addprioritized(T1, next, pendingtasks).list,
                     asserted     |-> FALSE]
           ELSE LET T1 == [T EXCEPT ![next].task_state = "TSTATE_TASK_READYTORUN"]
                IN  [tcb          |-> T1,
                     assigned     |-> list,
                     readytorun   |-> sched_addprioritized(T1, next, readytorun).list,
                     pendingtasks |-> pendingtasks,
                     asserted     |-> FALSE]

\* Lines 430-462: where the displaced head goes.  list is g_assignedtasks[cpu]
\* with btcb at its head; schedlock is g_cpu_schedlock after adjust_lockset.
rehome_next(T, btcb, cpu, list, readytorun, pendingtasks, schedlock) ==
  LET next == list[2]
  IN  IF T[next].cpu_locked
      THEN [tcb          |-> [T EXCEPT ![next].task_state = "TSTATE_TASK_ASSIGNED"],
            assigned     |-> list,
            readytorun   |-> readytorun,
            pendingtasks |-> pendingtasks,
            asserted     |-> T[next].cpu # cpu]
      ELSE IF spin_islocked(schedlock)
           THEN LET T1 == [T EXCEPT ![next].task_state = "TSTATE_TASK_PENDING"]
                IN  [tcb          |-> T1,
                     assigned     |-> dq_rem(next, list),
                     readytorun   |-> readytorun,
                     pendingtasks |-> sched_addprioritized(T1, next, pendingtasks).list,
                     asserted     |-> FALSE]
           ELSE LET T1 == [T EXCEPT ![next].task_state = "TSTATE_TASK_READYTORUN"]
                IN  [tcb          |-> T1,
                     assigned     |-> dq_rem(next, list),
                     readytorun   |-> sched_addprioritized(T1, next, readytorun).list,
                     pendingtasks |-> pendingtasks,
                     asserted     |-> FALSE]

\* Lines 464-489: the values the function can return after it has added btcb
\* to g_assignedtasks[cpu].  doswitch is set on the switched path and when the
\* other CPU is resumed; on the path of lines 466-481 with cpu = me it is
\* returned without ever having been assigned.
doswitch_values(switched, cpu, me) ==
  IF cpu # me
  THEN {FALSE}
  ELSE IF switched THEN {TRUE} ELSE BOOLEAN

\* Lines 378-465 without the assignment of line 390: btcb->cpu keeps the value
\* it came with.
smp_switched_no_cpu(S, btcb, cpu, list, task_state) ==
  LET T1  == [S.tcb EXCEPT ![btcb].task_state = "TSTATE_TASK_RUNNING"]
      lk  == adjust_lockset(T1, btcb, cpu, S.lockset, S.schedlock)
      irq == adjust_irqset(T1, btcb, cpu, S.irqset, S.irqlock)
      mv  == rehome_next(T1, btcb, cpu, list, S.readytorun, S.pendingtasks,
                         lk.orlock)
  IN  [tcb           |-> mv.tcb,
       readytorun    |-> mv.readytorun,
       pendingtasks  |-> mv.pendingtasks,
       assignedtasks |-> [S.assignedtasks EXCEPT ![cpu] = mv.assigned],
       lockset       |-> lk.set,
       schedlock     |-> lk.orlock,
       irqset        |-> irq.set,
       irqlock       |-> irq.orlock,
       asserted      |-> (task_state # "TSTATE_TASK_RUNNING") \/ mv.asserted]

\* Lines 378-465: btcb is the new head of g_assignedtasks[cpu].
smp_switched(S, btcb, cpu, list, task_state) ==
  LET T1  == [S.tcb EXCEPT ![btcb].cpu = cpu,
                           ![btcb].task_state = "TSTATE_TASK_RUNNING"]
      lk  == adjust_lockset(T1, btcb, cpu, S.lockset, S.schedlock)
      irq == adjust_irqset(T1, btcb, cpu, S.irqset, S.irqlock)
      mv  == rehome_next(T1, btcb, cpu, list, S.readytorun, S.pendingtasks,
                         lk.orlock)
  IN  [tcb           |-> mv.tcb,
       readytorun    |-> mv.readytorun,
       pendingtasks  |-> mv.pendingtasks,
       assignedtasks |-> [S.assignedtasks EXCEPT ![cpu] = mv.assigned],
       lockset       |-> lk.set,
       schedlock     |-> lk.orlock,
       irqset        |-> irq.set,
       irqlock       |-> irq.orlock,
       asserted      |-> (task_state # "TSTATE_TASK_RUNNING") \/ mv.asserted]

\* Lines 466-481: btcb went in behind the head of g_assignedtasks[cpu].
smp_not_switched(S, btcb, cpu, list, task_state) ==
  [tcb           |-> [S.tcb EXCEPT ![btcb].cpu = cpu,
                                   ![btcb].task_state = "TSTATE_TASK_ASSIGNED"],
   readytorun    |-> S.readytorun,
   pendingtasks  |-> S.pendingtasks,
   assignedtasks |-> [S.assignedtasks EXCEPT ![cpu] = list],
   lockset       |-> S.lockset,
   schedlock     |-> S.schedlock,
   irqset        |-> S.irqset,
   irqlock       |-> S.irqlock,
   asserted      |-> task_state # "TSTATE_TASK_ASSIGNED"]

\* Lines 355-490 with the task linked at the head of the list whatever its
\* priority (dq_addfirst() for the sched_addprioritized() of line 371).
smp_assign_addfirst(S, me, btcb, cpu, task_state) ==
  LET add == [list |-> <<btcb>> \o S.assignedtasks[cpu], ret |-> TRUE]
      r   == IF add.ret THEN smp_switched(S, btcb, cpu, add.list, task_state)
                        ELSE smp_not_switched(S, btcb, cpu, add.list, task_state)
  IN  [post     |-> r,
       rets     |-> doswitch_values(add.ret, cpu, me),
       switched |-> add.ret,
       paused   |-> IF cpu # me THEN {cpu} ELSE {}]

\* Lines 355-490: the task goes to g_assignedtasks[cpu]; the CPU is paused
\* around the change when it is not the caller's.
smp_assign(S, me, btcb, cpu, task_state) ==
  LET add == sched_addprioritized(S.tcb, btcb, S.assignedtasks[cpu])
      r   == IF add.ret THEN smp_switched(S, btcb, cpu, add.list, task_state)
                        ELSE smp_not_switched(S, btcb, cpu, add.list, task_state)
  IN  [post     |-> r,
       rets     |-> doswitch_values(add.ret, cpu, me),
       switched |-> add.ret,
       paused   |-> IF cpu # me THEN {cpu} ELSE {}]

\* Lines 332-338 with the task linked into g_readytorun instead of
\* g_pendingtasks.
smp_pend_to_readytorun(S, btcb) ==
  [S EXCEPT !.tcb = [S.tcb EXCEPT ![btcb].task_state = "TSTATE_TASK_PENDING"],
            !.readytorun = sched_addprioritized(S.tcb, btcb, S.readytorun).list,
            !.asserted = FALSE]

\* Lines 332-338: the task waits in g_pendingtasks.
smp_pend(S, btcb) ==
  [S EXCEPT !.tcb = [S.tcb EXCEPT ![btcb].task_state = "TSTATE_TASK_PENDING"],
            !.pendingtasks = sched_addprioritized(S.tcb, btcb, S.pendingtasks).list,
            !.asserted = FALSE]

\* Lines 342-353: the task goes to g_readytorun.
smp_readytorun(S, btcb) ==
  [S EXCEPT !.tcb = [S.tcb EXCEPT ![btcb].task_state = "TSTATE_TASK_READYTORUN"],
            !.readytorun = sched_addprioritized(S.tcb, btcb, S.readytorun).list,
            !.asserted = FALSE]

\* The whole function.  S is the state on entry (with asserted = FALSE); the
\* result names the state on exit, the values it can return, and what the call
\* decided on the way.
sched_addreadytorun_smp(S, initstate, me, btcb) ==
  LET cpu0       == candidate_cpu(S.tcb, S.assignedtasks, btcb)
      rtcb       == Head(S.assignedtasks[cpu0])
      task_state == desired_state(S.tcb, rtcb, btcb)
      cpu        == desired_cpu(S.tcb, rtcb, btcb, cpu0)
      cpulocked  == sched_cpulocked(initstate, S.irqset, me)
      \* sched_cpulocked() runs only when g_cpu_schedlock is not locked
      chk        == /\ ~spin_islocked(S.schedlock)
                    /\ sched_cpulocked_asserted(initstate, S.irqset, S.irqlock)
  IN  IF must_pend(S.schedlock, cpulocked, task_state)
      THEN [post       |-> [smp_pend(S, btcb) EXCEPT !.asserted = chk],
            rets       |-> {FALSE},
            switched   |-> FALSE,
            paused     |-> {},
            task_state |-> task_state,
            cpu        |-> cpu,
            branch     |-> "pending"]
      ELSE IF task_state = "TSTATE_TASK_READYTORUN"
           THEN [post       |-> [smp_readytorun(S, btcb) EXCEPT !.asserted = chk],
                 rets       |-> {FALSE},
                 switched   |-> FALSE,
                 paused     |-> {},
                 task_state |-> task_state,
                 cpu        |-> cpu,
                 branch     |-> "readytorun"]
           ELSE LET a == smp_assign(S, me, btcb, cpu, task_state)
                IN  [post       |-> [a.post EXCEPT !.asserted = @ \/ chk],
                     rets       |-> a.rets,
                     switched   |-> a.switched,
                     paused     |-> a.paused,
                     task_state |-> task_state,
                     cpu        |-> cpu,
                     branch     |-> "assigned"]

---------------------------------------------------------------------------
(* The state machine *)

\* The task lists and lock state as one record, as the functions above take it.
State ==
  [tcb           |-> tcb,
   readytorun    |-> g_readytorun,
   pendingtasks  |-> g_pendingtasks,
   assignedtasks |-> g_assignedtasks,
   lockset       |-> g_cpu_lockset,
   schedlock     |-> g_cpu_schedlock,
   irqset        |-> g_cpu_irqset,
   irqlock       |-> g_cpu_irqlock,
   asserted      |-> FALSE]

\* A TCB that is in no list.
DetachedTcb ==
  [sched_priority |-> 0, task_state |-> "TSTATE_TASK_INACTIVE", cpu |-> 0,
   cpu_locked |-> FALSE, affinity |-> CPUs, lockcount |-> 0, irqcount |-> 0]

\* The IDLE task of a CPU: priority 0, locked to its CPU, running.
IdleTcb(c) ==
  [sched_priority |-> 0, task_state |-> "TSTATE_TASK_RUNNING", cpu |-> c,
   cpu_locked |-> TRUE, affinity |-> {c}, lockcount |-> 0, irqcount |-> 0]

\* The locals of a call that has not started.
NoLocals ==
  [btcb |-> 0, rtcb |-> 0, cpu |-> 0, task_state |-> "none", schedlock |-> FALSE,
   cpulocked |-> FALSE, switched |-> FALSE, raced |-> FALSE, ret |-> FALSE,
   branch |-> "none", pauses |-> 0, resumes |-> 0]

\* No call runs in steps.
StepsIdle ==
  /\ pc = [c \in CPUs |-> "idle"]
  /\ loc = [c \in CPUs |-> NoLocals]
  /\ g_cpu_irqsetlock = FALSE
  /\ g_cpu_paused = [c \in CPUs |-> FALSE]
  /\ pausedby = [c \in CPUs |-> NoCpu]
  /\ asserts = {}

NoCall ==
  [me |-> 0, btcb |-> 0, ret |-> FALSE, task_state |-> "none", cpu |-> 0,
   branch |-> "none", switched |-> FALSE, paused |-> {}, entry |-> <<>>]

\* The state nx_start() leaves: each CPU runs its IDLE task (the uniprocessor
\* build has the one IDLE task at the head of g_readytorun), no lock is held.
Init ==
  /\ CONFIG_SMP \in BOOLEAN
  /\ g_os_initstate \in
       IF CONFIG_SMP THEN {OSINIT_OSREADY - 1, OSINIT_OSREADY} ELSE {OSINIT_OSREADY}
  /\ tcb = [t \in TaskIds |->
              IF t \in IdleTasks /\ (CONFIG_SMP \/ t = IdleTask(0))
              THEN IdleTcb(t - 1)
              ELSE DetachedTcb]
  /\ g_readytorun = IF CONFIG_SMP THEN <<>> ELSE <<IdleTask(0)>>
  /\ g_pendingtasks = <<>>
  /\ g_assignedtasks = [c \in CPUs |-> IF CONFIG_SMP THEN <<IdleTask(c)>> ELSE <<>>]
  /\ g_cpu_lockset = 0
  /\ g_cpu_schedlock = FALSE
  /\ g_cpu_irqset = 0
  /\ g_cpu_irqlock = FALSE
  /\ asserted = FALSE
  /\ call = NoCall
  /\ StepsIdle

\* The task the next call admits: tasks are admitted in the order of their
\* ids (an id is only a name, so this loses no behaviour).
NextTask(b) ==
  /\ b \in UserTasks
  /\ tcb[b].task_state = "TSTATE_TASK_INACTIVE"
  /\ \A t \in UserTasks : t < b => tcb[t].task_state # "TSTATE_TASK_INACTIVE"

\* sched_addreadytorun(btcb) of the uniprocessor build.
AdmitUP ==
  /\ ~CONFIG_SMP
  /\ \E b \in {t \in UserTasks : NextTask(t)}, prio \in 1 .. MaxPrio, lk \in Counts :
       /\ b \in UserTasks
       /\ \E S \in {[State EXCEPT !.tcb[b].sched_priority = prio,
                                    !.tcb[b].lockcount = lk]} :
          \E r \in {sched_addreadytorun_up(S.tcb, S.readytorun, S.pendingtasks, b)} :
              /\ tcb' = r.tcb
              /\ g_readytorun' = r.readytorun
              /\ g_pendingtasks' = r.pendingtasks
              /\ asserted' = (asserted \/ r.asserted)
              /\ call' = [me |-> 0, btcb |-> b, ret |-> r.ret,
                          task_state |-> "none", cpu |-> 0, branch |-> "up",
                          switched |-> r.ret, paused |-> {}, entry |-> S]
  /\ UNCHANGED <<CONFIG_SMP, g_os_initstate, g_assignedtasks, g_cpu_lockset,
                 g_cpu_schedlock, g_cpu_irqset, g_cpu_irqlock, stepvars>>

\* What a detached task can look like when an SMP kernel makes it runnable: a
\* task locked to a CPU has that CPU as its affinity.
SmpInputs ==
  LET Placement ==
        {[cpu_locked |-> TRUE, cpu |-> c, affinity |-> {c}] : c \in CPUs}
        \cup {[cpu_locked |-> FALSE, cpu |-> 0, affinity |-> a] :
                a \in (SUBSET CPUs) \ {{}}}
  IN  {[sched_priority |-> p, cpu_locked |-> pl.cpu_locked, cpu |-> pl.cpu,
        affinity |-> pl.affinity, lockcount |-> lk, irqcount |-> irq] :
         p \in 1 .. MaxPrio, pl \in Placement, lk \in Counts, irq \in Counts}

\* The CPUs that can be the caller: before OSINIT_OSREADY only CPU 0 runs.
Callers == IF g_os_initstate < OSINIT_OSREADY THEN {0} ELSE CPUs

\* sched_addreadytorun(btcb) of the SMP build, called on CPU me.
AdmitSMP ==
  /\ CONFIG_SMP
  /\ \E b \in {t \in UserTasks : NextTask(t)}, in \in SmpInputs, me \in Callers :
       /\ b \in UserTasks
       /\ \E S \in {[State EXCEPT !.tcb[b] =
                      [sched_priority |-> in.sched_priority,
                       task_state |-> "TSTATE_TASK_INACTIVE", cpu |-> in.cpu,
                       cpu_locked |-> in.cpu_locked, affinity |-> in.affinity,
                       lockcount |-> in.lockcount, irqcount |-> in.irqcount]]} :
          \E r \in {sched_addreadytorun_smp(S, g_os_initstate, me, b)} :
              /\ tcb' = r.post.tcb
              /\ g_readytorun' = r.post.readytorun
              /\ g_pendingtasks' = r.post.pendingtasks
              /\ g_assignedtasks' = r.post.assignedtasks
              /\ g_cpu_lockset' = r.post.lockset
              /\ g_cpu_schedlock' = r.post.schedlock
              /\ g_cpu_irqset' = r.post.irqset
              /\ g_cpu_irqlock' = r.post.irqlock
              /\ asserted' = (asserted \/ r.post.asserted)
              /\ \E ret \in r.rets :
                   call' = [me |-> me, btcb |-> b, ret |-> ret,
                            task_state |-> r.task_state, cpu |-> r.cpu,
                            branch |-> r.branch, switched |-> r.switched,
                            paused |-> r.paused, entry |-> S]
  /\ UNCHANGED <<CONFIG_SMP, g_os_initstate, stepvars>>

Next == AdmitUP \/ AdmitSMP

Spec == Init /\ [][Next]_vars

---------------------------------------------------------------------------
(* The SMP call in steps.  Each CPU makes one call; a step is a stretch of  *)
(* the function that reads or writes the shared lists and lock state once. *)
(* A CPU takes the pause interrupt only outside its call (the call runs    *)
(* with the local interrupts disabled).                                    *)

\* The task the call of CPU me admits (one of the first CONFIG_SMP_NCPUS
\* tasks of UserTasks).
StepTask(me) == CONFIG_SMP_NCPUS + 1 + me

\* The TCB of a detached task with the given input fields.
TcbOf(in) ==
  [sched_priority |-> in.sched_priority, task_state |-> "TSTATE_TASK_INACTIVE",
   cpu |-> in.cpu, cpu_locked |-> in.cpu_locked, affinity |-> in.affinity,
   lockcount |-> in.lockcount, irqcount |-> in.irqcount]

\* The state nx_start() leaves in the SMP build.
BootState ==
  [tcb           |-> [t \in TaskIds |->
                        IF t \in IdleTasks THEN IdleTcb(t - 1) ELSE DetachedTcb],
   readytorun    |-> <<>>,
   pendingtasks  |-> <<>>,
   assignedtasks |-> [c \in CPUs |-> <<IdleTask(c)>>],
   lockset       |-> 0,
   schedlock     |-> FALSE,
   irqset        |-> 0,
   irqlock       |-> FALSE,
   asserted      |-> FALSE]

\* The states the calls in steps start from: the boot state, and the states
\* one earlier, uninterrupted call leaves (for the resident task, which holds
\* no lock).
EarlierStates ==
  {BootState} \cup
  {sched_addreadytorun_smp([BootState EXCEPT !.tcb[ResidentTask] = TcbOf(in)],
                           OSINIT_OSREADY, 0, ResidentTask).post :
     in \in {i \in SmpInputs : i.lockcount = 0 /\ i.irqcount = 0}}

InitSteps ==
  /\ CONFIG_SMP = TRUE
  /\ g_os_initstate = OSINIT_OSREADY
  /\ \E S \in EarlierStates :
       /\ tcb = S.tcb
       /\ g_readytorun = S.readytorun
       /\ g_pendingtasks = S.pendingtasks
       /\ g_assignedtasks = S.assignedtasks
       /\ g_cpu_lockset = S.lockset
       /\ g_cpu_schedlock = S.schedlock
       /\ g_cpu_irqset = S.irqset
       /\ g_cpu_irqlock = S.irqlock
  /\ asserted = FALSE
  /\ call = NoCall
  /\ StepsIdle

\* The task lists and lock state.
listvars == <<tcb, g_readytorun, g_pendingtasks, g_assignedtasks, g_cpu_lockset,
              g_cpu_schedlock, g_cpu_irqset, g_cpu_irqlock>>

\* What no step changes.
fixedvars == <<CONFIG_SMP, g_os_initstate, call>>

\* The task lists and lock state become those of the record S.
Becomes(S) ==
  /\ tcb' = S.tcb
  /\ g_readytorun' = S.readytorun
  /\ g_pendingtasks' = S.pendingtasks
  /\ g_assignedtasks' = S.assignedtasks
  /\ g_cpu_lockset' = S.lockset
  /\ g_cpu_schedlock' = S.schedlock
  /\ g_cpu_irqset' = S.irqset
  /\ g_cpu_irqlock' = S.irqlock

\* Lines 266-313 and 328: the call starts on CPU me, picks the CPU and the
\* task at the head of its list, and computes the desired state.
Select(me) ==
  /\ pc[me] = "idle"
  /\ ~g_cpu_paused[me]
  /\ \E in \in SmpInputs :
     \E T \in {[tcb EXCEPT ![StepTask(me)] = TcbOf(in)]} :
     \E cpu0 \in {candidate_cpu(T, g_assignedtasks, StepTask(me))} :
     \E rtcb \in {Head(g_assignedtasks[cpu0])} :
       /\ tcb' = T
       /\ loc' = [loc EXCEPT ![me] =
                    [NoLocals EXCEPT
                       !.btcb = StepTask(me),
                       !.rtcb = rtcb,
                       !.cpu = desired_cpu(T, rtcb, StepTask(me), cpu0),
                       !.task_state = desired_state(T, rtcb, StepTask(me))]]
  /\ pc' = [pc EXCEPT ![me] = "selected"]
  /\ UNCHANGED <<g_readytorun, g_pendingtasks, g_assignedtasks, g_cpu_lockset,
                 g_cpu_schedlock, g_cpu_irqset, g_cpu_irqlock, asserted,
                 g_cpu_irqsetlock, g_cpu_paused, pausedby, asserts, fixedvars>>

\* Line 329, first operand: g_cpu_schedlock is locked, so sched_cpulocked() is
\* not called.
SchedlockTaken(me) ==
  /\ pc[me] = "selected"
  /\ spin_islocked(g_cpu_schedlock)
  /\ loc' = [loc EXCEPT ![me].schedlock = TRUE]
  /\ pc' = [pc EXCEPT ![me] = "decided"]
  /\ UNCHANGED <<listvars, asserted, g_cpu_irqsetlock, g_cpu_paused, pausedby,
                 asserts, fixedvars>>

\* Line 329, second operand, and line 84: sched_cpulocked() is entered and
\* takes g_cpu_irqsetlock once it is free.
CpulockedEnter(me) ==
  /\ pc[me] = "selected"
  /\ ~spin_islocked(g_cpu_schedlock)
  /\ ~spin_islocked(g_cpu_irqsetlock)
  /\ g_cpu_irqsetlock' = TRUE
  /\ pc' = [pc EXCEPT ![me] = "cpulocked"]
  /\ UNCHANGED <<listvars, asserted, loc, g_cpu_paused, pausedby, asserts,
                 fixedvars>>

\* Lines 88-136: sched_cpulocked() computes its result, releases
\* g_cpu_irqsetlock and returns.
CpulockedExit(me) ==
  /\ pc[me] = "cpulocked"
  /\ loc' = [loc EXCEPT ![me].cpulocked =
                          sched_cpulocked(g_os_initstate, g_cpu_irqset, me)]
  /\ \E failed \in {sched_cpulocked_asserted(g_os_initstate, g_cpu_irqset,
                                             g_cpu_irqlock)} :
       /\ asserted' = (asserted \/ failed)
       /\ asserts' = asserts \cup
                       (IF failed THEN {IF g_cpu_irqset # 0 THEN 105 ELSE 125}
                                  ELSE {})
  /\ g_cpu_irqsetlock' = FALSE
  /\ pc' = [pc EXCEPT ![me] = "decided"]
  /\ UNCHANGED <<listvars, g_cpu_paused, pausedby, fixedvars>>

\* The test of lines 329-330 with the values the call has read.
StepMustPend(me) ==
  must_pend(loc[me].schedlock, loc[me].cpulocked, loc[me].task_state)

\* Lines 331-339: the task waits in g_pendingtasks; the call returns false.
Pend(me) ==
  /\ pc[me] = "decided"
  /\ StepMustPend(me)
  /\ Becomes(smp_pend(State, loc[me].btcb))
  /\ loc' = [loc EXCEPT ![me].branch = "pending", ![me].ret = FALSE]
  /\ pc' = [pc EXCEPT ![me] = "done"]
  /\ UNCHANGED <<asserted, g_cpu_irqsetlock, g_cpu_paused, pausedby, asserts,
                 fixedvars>>

\* Lines 340-354: the task goes to g_readytorun; the call returns false.
ReadyToRun(me) ==
  /\ pc[me] = "decided"
  /\ ~StepMustPend(me)
  /\ loc[me].task_state = "TSTATE_TASK_READYTORUN"
  /\ Becomes(smp_readytorun(State, loc[me].btcb))
  /\ loc' = [loc EXCEPT ![me].branch = "readytorun", ![me].ret = FALSE]
  /\ pc' = [pc EXCEPT ![me] = "done"]
  /\ UNCHANGED <<asserted, g_cpu_irqsetlock, g_cpu_paused, pausedby, asserts,
                 fixedvars>>

\* Lines 357-364: the task goes to the list of another CPU, which is asked to
\* pause; the call then waits for it in up_cpu_pause().
PauseCpu(me) ==
  /\ pc[me] = "decided"
  /\ ~StepMustPend(me)
  /\ loc[me].task_state # "TSTATE_TASK_READYTORUN"
  /\ loc[me].cpu # me
  /\ pausedby[loc[me].cpu] = NoCpu
  /\ pausedby' = [pausedby EXCEPT ![loc[me].cpu] = me]
  /\ loc' = [loc EXCEPT ![me].pauses = @ + 1]
  /\ pc' = [pc EXCEPT ![me] = "pausing"]
  /\ UNCHANGED <<listvars, asserted, g_cpu_irqsetlock, g_cpu_paused, asserts,
                 fixedvars>>

\* CPU c takes the pause interrupt and spins until it is resumed.  It can do
\* so only while it is not inside a call of its own.
TakePause(c) ==
  /\ pausedby[c] # NoCpu
  /\ ~g_cpu_paused[c]
  /\ pc[c] \in {"idle", "done"}
  /\ g_cpu_paused' = [g_cpu_paused EXCEPT ![c] = TRUE]
  /\ UNCHANGED <<listvars, asserted, pc, loc, g_cpu_irqsetlock, pausedby,
                 asserts, fixedvars>>

\* Lines 370-481: the task is linked into g_assignedtasks[cpu], at once when
\* the CPU is the caller's, and when the other CPU has paused otherwise.
Insert(me) ==
  /\ \/ /\ pc[me] = "decided"
        /\ ~StepMustPend(me)
        /\ loc[me].task_state # "TSTATE_TASK_READYTORUN"
        /\ loc[me].cpu = me
     \/ /\ pc[me] = "pausing"
        /\ g_cpu_paused[loc[me].cpu]
  /\ \E r \in {smp_assign(State, me, loc[me].btcb, loc[me].cpu,
                          loc[me].task_state)} :
       /\ Becomes(r.post)
       /\ asserted' = (asserted \/ r.post.asserted)
       /\ asserts' = asserts
            \cup (IF r.switched /\ loc[me].task_state # "TSTATE_TASK_RUNNING"
                  THEN {388} ELSE {})
            \cup (IF r.switched /\ r.post.asserted
                     /\ loc[me].task_state = "TSTATE_TASK_RUNNING"
                  THEN {436} ELSE {})
            \cup (IF ~r.switched /\ loc[me].task_state # "TSTATE_TASK_ASSIGNED"
                  THEN {477} ELSE {})
       /\ \E ret \in r.rets :
            loc' = [loc EXCEPT
                      ![me].switched = r.switched,
                      ![me].raced = (Head(g_assignedtasks[loc[me].cpu])
                                       # loc[me].rtcb),
                      ![me].branch = "assigned",
                      ![me].ret = ret]
  /\ pc' = [pc EXCEPT ![me] = IF loc[me].cpu # me THEN "resuming" ELSE "done"]
  /\ UNCHANGED <<g_cpu_irqsetlock, g_cpu_paused, pausedby, fixedvars>>

\* Lines 485-492 without the up_cpu_resume() of line 488: the call returns and
\* leaves the other CPU paused.
Resume_without_resume(me) ==
  /\ pc[me] = "resuming"
  /\ loc' = [loc EXCEPT ![me].ret = FALSE]
  /\ pc' = [pc EXCEPT ![me] = "done"]
  /\ UNCHANGED <<listvars, asserted, g_cpu_irqsetlock, g_cpu_paused, pausedby,
                 asserts, fixedvars>>

\* Lines 485-492: the other CPU is resumed; the call returns false.
Resume(me) ==
  /\ pc[me] = "resuming"
  /\ g_cpu_paused' = [g_cpu_paused EXCEPT ![loc[me].cpu] = FALSE]
  /\ pausedby' = [pausedby EXCEPT ![loc[me].cpu] = NoCpu]
  /\ loc' = [loc EXCEPT ![me].resumes = @ + 1, ![me].ret = FALSE]
  /\ pc' = [pc EXCEPT ![me] = "done"]
  /\ UNCHANGED <<listvars, asserted, g_cpu_irqsetlock, asserts, fixedvars>>

\* One step of the call of CPU me.
Step(me) ==
  \/ Select(me)
  \/ SchedlockTaken(me)
  \/ CpulockedEnter(me)
  \/ CpulockedExit(me)
  \/ Pend(me)
  \/ ReadyToRun(me)
  \/ PauseCpu(me)
  \/ Insert(me)
  \/ Resume(me)

NextSteps == \E me \in CPUs : Step(me) \/ TakePause(me)

SpecSteps == InitSteps /\ [][NextSteps]_vars

---------------------------------------------------------------------------

\* The calls in steps start right after boot: no task but the IDLE tasks has
\* been made runnable.
InitBoot ==
  /\ InitSteps
  /\ tcb[ResidentTask].task_state = "TSTATE_TASK_INACTIVE"

\* The calls in steps with the CPUs scheduled fairly: a call that can take a
\* step takes it, and a CPU that can take a pause interrupt takes it.
FairSteps ==
  /\ InitBoot
  /\ [][NextSteps]_vars
  /\ \A me \in CPUs : WF_vars(Step(me)) /\ WF_vars(TakePause(me))

---------------------------------------------------------------------------

(* sched_cpulocked() on its own *)

\* The last value of g_os_initstate (the IDLE loop runs).
OSINIT_IDLELOOP == OSINIT_OSREADY + 1

\* Every g_os_initstate and every g_cpu_irqset, with g_cpu_irqlock locked
\* exactly when a bit of the set is on.
InitCpulocked ==
  /\ CONFIG_SMP = TRUE
  /\ g_os_initstate \in 0 .. OSINIT_IDLELOOP
  /\ g_cpu_irqset \in 0 .. (Pow2(CONFIG_SMP_NCPUS) - 1)
  /\ g_cpu_irqlock = (g_cpu_irqset # 0)
  /\ tcb = BootState.tcb
  /\ g_readytorun = <<>>
  /\ g_pendingtasks = <<>>
  /\ g_assignedtasks = BootState.assignedtasks
  /\ g_cpu_lockset = 0
  /\ g_cpu_schedlock = FALSE
  /\ asserted = FALSE
  /\ call = NoCall
  /\ StepsIdle

\* Line 84: CPU me calls sched_cpulocked(me), which takes g_cpu_irqsetlock
\* once it is free.
CallCpulocked(me) ==
  /\ pc[me] = "idle"
  /\ ~spin_islocked(g_cpu_irqsetlock)
  /\ g_cpu_irqsetlock' = TRUE
  /\ pc' = [pc EXCEPT ![me] = "cpulocked"]
  /\ UNCHANGED <<listvars, asserted, loc, g_cpu_paused, pausedby, asserts,
                 fixedvars>>

NextCpulocked == \E me \in CPUs : CallCpulocked(me) \/ CpulockedExit(me)

SpecCpulocked == InitCpulocked /\ [][NextCpulocked]_vars

---------------------------------------------------------------------------

(* Vocabulary of the properties *)

Elems(list) == {list[i] : i \in 1 .. Len(list)}

Tail2(list) == {list[i] : i \in 2 .. Len(list)}

Called == call.branch # "none"

SmpCalled == CONFIG_SMP /\ Called

UpCalled == ~CONFIG_SMP /\ Called

Prio(t) == tcb[t].sched_priority

\* The tasks at the head of the assigned lists on entry to the last call.
EntryHead(c) == Head(call.entry.assignedtasks[c])

HeadsUnchanged ==
  \A c \in CPUs : Head(g_assignedtasks[c]) = EntryHead(c)

\* The places (list, index) a task is linked at.
Places(t) ==
  {<<"readytorun", 0, i>> : i \in {j \in 1 .. Len(g_readytorun) : g_readytorun[j] = t}}
  \cup {<<"pending", 0, i>> :
          i \in {j \in 1 .. Len(g_pendingtasks) : g_pendingtasks[j] = t}}
  \cup UNION {{<<"assigned", c, i>> :
                 i \in {j \in 1 .. Len(g_assignedtasks[c]) : g_assignedtasks[c][j] = t}} :
              c \in CPUs}

RunnableStates ==
  {"TSTATE_TASK_RUNNING", "TSTATE_TASK_ASSIGNED", "TSTATE_TASK_READYTORUN",
   "TSTATE_TASK_PENDING"}

\* The running tasks and the tasks that are linked but not running.
RunningTasks ==
  IF CONFIG_SMP THEN {Head(g_assignedtasks[c]) : c \in CPUs}
                ELSE {Head(g_readytorun)}

AssignedWaiting == UNION {Tail2(g_assignedtasks[c]) : c \in CPUs}

Sorted(list) ==
  \A i \in 1 .. (Len(list) - 1) : Prio(list[i]) >= Prio(list[i + 1])

---------------------------------------------------------------------------
(* C1 *)

\* C1: an SMP call on CPU me returns true if and only if the head of
\* g_assignedtasks[me] on exit differs from the head on entry; it returns false
\* when the task went to another CPU's list, to g_pendingtasks, to g_readytorun
\* or behind the head of an assigned list.
C1_ReturnsTrueIffLocalHeadChanged ==
  SmpCalled =>
    /\ call.ret <=> (Head(g_assignedtasks[call.me]) # EntryHead(call.me))
    /\ (call.branch = "assigned" /\ call.cpu # call.me) => ~call.ret
    /\ call.branch \in {"pending", "readytorun"} => ~call.ret
    /\ (call.branch = "assigned" /\ ~call.switched) => ~call.ret

\* What the code does guarantee: the return value is the one of C1 on every
\* path but that of lines 466-481 taken for the caller's own CPU, where
\* doswitch is returned without having been assigned.
C1_AllButUnassignedDoswitch ==
  (SmpCalled /\ ~(call.branch = "assigned" /\ ~call.switched /\ call.cpu = call.me))
  => (call.ret <=> (Head(g_assignedtasks[call.me]) # EntryHead(call.me)))

---------------------------------------------------------------------------
(* C2 *)

\* C2: every runnable task is linked at exactly one place of exactly one list
\* and its state says which: PENDING in g_pendingtasks, READYTORUN in
\* g_readytorun (uniprocessor: behind its head), RUNNING at the head of an
\* assigned list (uniprocessor: of g_readytorun), ASSIGNED behind the head of
\* an assigned list; a task that is not runnable is in no list; and the task
\* of the last call is in one of the four runnable states.
C2_OneQueueAndStateAgrees ==
  /\ \A t \in TaskIds :
       LET st == tcb[t].task_state
       IN  /\ Cardinality(Places(t)) = (IF st \in RunnableStates THEN 1 ELSE 0)
           /\ (st = "TSTATE_TASK_PENDING") <=> (t \in Elems(g_pendingtasks))
           /\ IF CONFIG_SMP
              THEN /\ (st = "TSTATE_TASK_READYTORUN") <=> (t \in Elems(g_readytorun))
                   /\ (st = "TSTATE_TASK_RUNNING") <=> (t \in RunningTasks)
                   /\ (st = "TSTATE_TASK_ASSIGNED") <=> (t \in AssignedWaiting)
              ELSE /\ (st = "TSTATE_TASK_READYTORUN") <=> (t \in Tail2(g_readytorun))
                   /\ (st = "TSTATE_TASK_RUNNING") <=> (t = Head(g_readytorun))
                   /\ st # "TSTATE_TASK_ASSIGNED"
  /\ Called => tcb[call.btcb].task_state \in RunnableStates

\* An SMP call pre-empted a task that is not locked to its CPU: the displaced
\* head went to g_readytorun.
C2_Witness ==
  /\ SmpCalled
  /\ call.switched
  /\ EntryHead(call.cpu) \in Elems(g_readytorun)

---------------------------------------------------------------------------
(* C3 *)

\* C3: on SMP, the head of each g_assignedtasks[c] is RUNNING with cpu = c and
\* every entry behind it is a task locked to its CPU, ASSIGNED, with cpu = c.
C3_AssignedLists ==
  CONFIG_SMP =>
    \A c \in CPUs :
      /\ Len(g_assignedtasks[c]) >= 1
      /\ tcb[Head(g_assignedtasks[c])].task_state = "TSTATE_TASK_RUNNING"
      /\ tcb[Head(g_assignedtasks[c])].cpu = c
      /\ \A t \in Tail2(g_assignedtasks[c]) :
           /\ tcb[t].cpu_locked
           /\ tcb[t].task_state = "TSTATE_TASK_ASSIGNED"
           /\ tcb[t].cpu = c

\* A task that is not locked to a CPU became the head of the list of a CPU
\* other than 0, over a locked task that stays behind it.
C3_Witness ==
  /\ SmpCalled
  /\ call.switched
  /\ call.cpu # 0
  /\ ~tcb[call.btcb].cpu_locked
  /\ Len(g_assignedtasks[call.cpu]) >= 2

---------------------------------------------------------------------------
(* C4 *)

\* C4: on SMP, bit c of g_cpu_lockset is set exactly when the head of
\* g_assignedtasks[c] has lockcount > 0, and bit c of g_cpu_irqset exactly when
\* it has irqcount > 0.
C4_LockSetsFollowHeads ==
  CONFIG_SMP =>
    \A c \in CPUs :
      /\ BitIsSet(g_cpu_lockset, c) <=> (tcb[Head(g_assignedtasks[c])].lockcount > 0)
      /\ BitIsSet(g_cpu_irqset, c) <=> (tcb[Head(g_assignedtasks[c])].irqcount > 0)

\* A pre-emption whose displaced head held the IRQ lock and whose new head
\* holds the pre-emption lock and not the IRQ lock.
C4_Witness ==
  /\ SmpCalled
  /\ call.switched
  /\ tcb[EntryHead(call.cpu)].irqcount > 0
  /\ tcb[call.btcb].lockcount > 0
  /\ tcb[call.btcb].irqcount = 0

---------------------------------------------------------------------------
(* C5 *)

\* The last call left its task in g_pendingtasks, PENDING, and returned false.
DivertedToPending ==
  /\ call.btcb \in Elems(g_pendingtasks)
  /\ call.btcb \notin Elems(call.entry.pendingtasks)
  /\ tcb[call.btcb].task_state = "TSTATE_TASK_PENDING"
  /\ ~call.ret

\* C5: on SMP, when g_cpu_lockset is not 0 on entry and the desired state is
\* RUNNING or READYTORUN, the task goes to g_pendingtasks with state PENDING,
\* the call returns false and every CPU runs the task it ran on entry.
C5_SchedLockDiverts ==
  (/\ SmpCalled
   /\ call.entry.lockset # 0
   /\ call.task_state \in {"TSTATE_TASK_RUNNING", "TSTATE_TASK_READYTORUN"})
  => (DivertedToPending /\ HeadsUnchanged)

\* A task that would have pre-empted was diverted because another task holds
\* the pre-emption lock.
C5_Witness ==
  /\ SmpCalled
  /\ call.entry.lockset # 0
  /\ call.task_state = "TSTATE_TASK_RUNNING"
  /\ call.branch = "pending"

---------------------------------------------------------------------------
(* C6 *)

\* C6: on SMP from OSINIT_OSREADY on, with g_cpu_lockset = 0 on entry and a
\* desired state of RUNNING or READYTORUN: when g_cpu_irqset is not 0 and the
\* caller's bit is clear, the task is diverted to g_pendingtasks (PENDING,
\* return false); when the caller's bit is set, the task is not in
\* g_pendingtasks and has its desired state.
C6_IrqLockDiverts ==
  (/\ SmpCalled
   /\ g_os_initstate >= OSINIT_OSREADY
   /\ call.entry.lockset = 0
   /\ call.task_state \in {"TSTATE_TASK_RUNNING", "TSTATE_TASK_READYTORUN"})
  => /\ (call.entry.irqset # 0 /\ ~BitIsSet(call.entry.irqset, call.me))
          => DivertedToPending
     /\ BitIsSet(call.entry.irqset, call.me)
          => /\ call.btcb \notin Elems(g_pendingtasks)
             /\ tcb[call.btcb].task_state = call.task_state

\* Another CPU than the caller's holds the IRQ lock and the task would have
\* run: it was diverted.
C6_Witness ==
  /\ SmpCalled
  /\ g_os_initstate >= OSINIT_OSREADY
  /\ call.entry.lockset = 0
  /\ call.entry.irqset # 0
  /\ ~BitIsSet(call.entry.irqset, call.me)
  /\ call.task_state = "TSTATE_TASK_RUNNING"
  /\ call.branch = "pending"

\* The other case of C6: the caller holds the IRQ lock itself and its task
\* runs.
C6_OwnLockReached ==
  /\ SmpCalled
  /\ g_os_initstate >= OSINIT_OSREADY
  /\ call.entry.lockset = 0
  /\ BitIsSet(call.entry.irqset, call.me)
  /\ call.task_state = "TSTATE_TASK_RUNNING"
  /\ tcb[call.btcb].task_state = "TSTATE_TASK_RUNNING"

---------------------------------------------------------------------------
(* C7 *)

\* C7: on a uniprocessor, with r the head of g_readytorun on entry and b the
\* admitted task: if r.lockcount > 0 and r.priority < b.priority, b goes to
\* g_pendingtasks, PENDING, return false; otherwise b goes to g_readytorun and
\* the call returns true exactly when b.priority > r.priority (b the head and
\* RUNNING, r second and READYTORUN), else b is READYTORUN and the call returns
\* false.  So it returns true iff r.lockcount = 0 and b.priority > r.priority.
C7_UniprocessorDecision ==
  UpCalled =>
    LET r == Head(call.entry.readytorun)
        b == call.btcb
    IN  /\ IF tcb[r].lockcount > 0 /\ Prio(r) < Prio(b)
           THEN /\ DivertedToPending
                /\ g_readytorun = call.entry.readytorun
           ELSE /\ b \in Elems(g_readytorun)
                /\ b \notin Elems(g_pendingtasks)
                /\ call.ret <=> (Prio(b) > Prio(r))
                /\ call.ret =>
                     /\ g_readytorun[1] = b
                     /\ tcb[b].task_state = "TSTATE_TASK_RUNNING"
                     /\ g_readytorun[2] = r
                     /\ tcb[r].task_state = "TSTATE_TASK_READYTORUN"
                /\ ~call.ret => tcb[b].task_state = "TSTATE_TASK_READYTORUN"
        /\ call.ret <=> (tcb[r].lockcount = 0 /\ Prio(b) > Prio(r))

\* A uniprocessor call pre-empted a running task that is not the IDLE task.
C7_Witness ==
  /\ UpCalled
  /\ call.ret
  /\ Head(call.entry.readytorun) \in UserTasks

\* The other case of C7: the running task holds the pre-emption lock and the
\* task of higher priority was diverted.
C7_BlockedReached ==
  /\ UpCalled
  /\ tcb[Head(call.entry.readytorun)].lockcount > 0
  /\ Prio(Head(call.entry.readytorun)) < Prio(call.btcb)

---------------------------------------------------------------------------
(* C8 *)

\* C8: no task in g_readytorun or behind the head of an assigned list has a
\* priority above that of every running task (on a uniprocessor: no task
\* behind the head of g_readytorun has a priority above the head's).  Tasks in
\* g_pendingtasks are not constrained.
C8_HighestPriorityRuns ==
  LET waiting == IF CONFIG_SMP THEN Elems(g_readytorun) \cup AssignedWaiting
                               ELSE Tail2(g_readytorun)
  IN  \A t \in waiting : \E r \in RunningTasks : Prio(t) <= Prio(r)

\* An SMP call put a task in g_readytorun although it has a higher priority
\* than the task some CPU runs (that CPU is outside its affinity).
C8_Witness ==
  /\ SmpCalled
  /\ call.branch = "readytorun"
  /\ \E c \in CPUs : Prio(Head(g_assignedtasks[c])) < Prio(call.btcb)

---------------------------------------------------------------------------
(* C9 *)

\* C9: on SMP, a task b locked to a CPU whose priority is not above that of
\* the head of g_assignedtasks[b.cpu] goes into that list behind the head,
\* ASSIGNED, cpu = b.cpu, and the call returns false, whatever the locks: it
\* is not diverted to g_pendingtasks and no CPU's running task changes.
C9_LockedTaskIsAssigned ==
  LET b == call.btcb
      c == call.entry.tcb[b].cpu
  IN  (/\ SmpCalled
       /\ call.entry.tcb[b].cpu_locked
       /\ ~(Prio(b) > Prio(EntryHead(c))))
      => /\ b \in Tail2(g_assignedtasks[c])
         /\ tcb[b].task_state = "TSTATE_TASK_ASSIGNED"
         /\ tcb[b].cpu = c
         /\ ~call.ret
         /\ b \notin Elems(g_pendingtasks)
         /\ HeadsUnchanged

\* What the code does guarantee for such a task: everything of C9 but the
\* return value when the task is locked to the calling CPU.
C9_AllButReturnValue ==
  LET b == call.btcb
      c == call.entry.tcb[b].cpu
  IN  (/\ SmpCalled
       /\ call.entry.tcb[b].cpu_locked
       /\ ~(Prio(b) > Prio(EntryHead(c))))
      => /\ b \in Tail2(g_assignedtasks[c])
         /\ tcb[b].task_state = "TSTATE_TASK_ASSIGNED"
         /\ tcb[b].cpu = c
         /\ (c # call.me => ~call.ret)
         /\ b \notin Elems(g_pendingtasks)
         /\ HeadsUnchanged

---------------------------------------------------------------------------
(* C10 *)

---------------------------------------------------------------------------
(* C12 *)

\* The last call was an SMP call that put its task at the head of
\* g_assignedtasks[call.cpu] (lines 378-465).
Preempted == SmpCalled /\ call.branch = "assigned" /\ call.switched

\* C12: on the preemptive path of the SMP build the task is the head of
\* g_assignedtasks[cpu], g_cpu_schedlock is held afterwards exactly when the
\* task's lockcount is positive, and the displaced head next is re-homed: a
\* task locked to the CPU stays second in g_assignedtasks[cpu] with state
\* ASSIGNED; any other is unlinked from the list and inserted by priority into
\* g_pendingtasks (state PENDING) when g_cpu_schedlock is then held, and into
\* g_readytorun (state READYTORUN) when it is not.
C12_DisplacedHeadRehomed ==
  Preempted =>
    LET c    == call.cpu
        b    == call.btcb
        next == EntryHead(c)
        E    == call.entry
    IN  /\ Head(g_assignedtasks[c]) = b
        /\ ~spin_islocked(E.schedlock)
        /\ spin_islocked(g_cpu_schedlock) <=> (tcb[b].lockcount > 0)
        /\ IF E.tcb[next].cpu_locked
           THEN /\ g_assignedtasks[c] = <<b>> \o E.assignedtasks[c]
                /\ tcb[next].task_state = "TSTATE_TASK_ASSIGNED"
                /\ g_pendingtasks = E.pendingtasks
                /\ g_readytorun = E.readytorun
           ELSE /\ g_assignedtasks[c] = <<b>> \o Tail(E.assignedtasks[c])
                /\ IF spin_islocked(g_cpu_schedlock)
                   THEN /\ tcb[next].task_state = "TSTATE_TASK_PENDING"
                        /\ g_pendingtasks =
                             sched_addprioritized(tcb, next, E.pendingtasks).list
                        /\ g_readytorun = E.readytorun
                   ELSE /\ tcb[next].task_state = "TSTATE_TASK_READYTORUN"
                        /\ g_readytorun =
                             sched_addprioritized(tcb, next, E.readytorun).list
                        /\ g_pendingtasks = E.pendingtasks

\* A task with a positive lockcount has preempted a task that is not locked to
\* the CPU, and the displaced task waits in g_pendingtasks.
C12_Witness ==
  /\ Preempted
  /\ ~call.entry.tcb[EntryHead(call.cpu)].cpu_locked
  /\ tcb[call.btcb].lockcount > 0
  /\ EntryHead(call.cpu) \in Elems(g_pendingtasks)

---------------------------------------------------------------------------
(* C11 *)

\* The call of CPU me has returned.
Returned(me) == pc[me] = "done"

\* The call of CPU me took the step.
Acts(me) == pc'[me] # pc[me]

\* What holds of the pauses in every state: a call pauses at most once and
\* resumes no more often than it has paused; a call that has returned has
\* resumed what it paused, and it paused (once) exactly when it linked its
\* task into the list of another CPU.
C11_PausesMatched ==
  \A me \in CPUs :
    /\ loc[me].resumes <= loc[me].pauses
    /\ loc[me].pauses <= 1
    /\ Returned(me) =>
         /\ loc[me].resumes = loc[me].pauses
         /\ \A c \in CPUs : pausedby[c] # me
         /\ (loc[me].pauses = 1) <=>
              (loc[me].branch = "assigned" /\ loc[me].cpu # me)

\* What holds of every step: a list g_assignedtasks[c] changes only in a step
\* of a call that links its task into it, and when c is not that call's CPU,
\* c has paused for this call before the step and is still paused for it
\* after the step; and a call pauses a CPU c only when c is not its own CPU
\* and the task goes to g_assignedtasks[c].
C11_ChangeWhilePaused ==
  \A c \in CPUs :
    /\ g_assignedtasks'[c] # g_assignedtasks[c] =>
         \E me \in CPUs :
           /\ Acts(me)
           /\ loc'[me].branch = "assigned"
           /\ loc[me].cpu = c
           /\ c # me =>
                /\ pausedby[c] = me /\ g_cpu_paused[c]
                /\ pausedby'[c] = me /\ g_cpu_paused'[c]
    /\ (pausedby'[c] # pausedby[c] /\ pausedby'[c] # NoCpu) =>
         /\ pausedby'[c] # c
         /\ Acts(pausedby'[c])
         /\ loc[pausedby'[c]].cpu = c
         /\ loc[pausedby'[c]].task_state \in
              {"TSTATE_TASK_RUNNING", "TSTATE_TASK_ASSIGNED"}
         /\ ~StepMustPend(pausedby'[c])

\* C11: in the SMP build g_assignedtasks[c] of a CPU c other than the caller's
\* changes only between the up_cpu_pause(c) and the up_cpu_resume(c) of the
\* call that changes it; a call that has returned has resumed every CPU it
\* paused, once; and no CPU is paused or resumed when c is the caller's CPU or
\* when the task goes to g_pendingtasks or g_readytorun.
C11_PauseBracketsRemoteChange ==
  [] C11_PausesMatched /\ [][C11_ChangeWhilePaused]_vars

\* A call has linked its task into the list of the other CPU and returned,
\* having paused and resumed that CPU.
C11_Witness ==
  \E me \in CPUs :
    /\ Returned(me)
    /\ loc[me].branch = "assigned"
    /\ loc[me].cpu # me
    /\ loc[me].btcb \in Elems(g_assignedtasks[loc[me].cpu])
    /\ loc[me].pauses = 1
    /\ loc[me].resumes = 1

---------------------------------------------------------------------------
(* C13 *)

\* The call of CPU me has linked its task into an assigned list.
Inserted(me) == loc[me].branch = "assigned"

\* C13: in every execution, calls of several CPUs interleaved included, a task
\* whose desired state was computed as RUNNING goes in at the head of
\* g_assignedtasks[cpu] (sched_addprioritized() returns true), so the
\* DEBUGASSERT of line 477 (a task that went in behind the head has the
\* desired state ASSIGNED) never fails.
C13_RunningTargetBecomesHead ==
  /\ \A me \in CPUs :
       (Inserted(me) /\ loc[me].task_state = "TSTATE_TASK_RUNNING") =>
         loc[me].switched
  /\ 477 \notin asserts

---------------------------------------------------------------------------
(* C14 *)

\* The call of CPU me computed the desired state ASSIGNED, another CPU then
\* put a task of higher priority at the head of g_assignedtasks[cpu], and the
\* call has linked its task into that list.
OvertakenAssigned(me) ==
  /\ Inserted(me)
  /\ loc[me].task_state = "TSTATE_TASK_ASSIGNED"
  /\ loc[me].raced

\* C14 as the specification states it: when another CPU puts a task of higher
\* priority on g_assignedtasks[cpu] between this call's choice of the CPU (with
\* desired state ASSIGNED) and its insertion, the task of this call still ends
\* up at the head of the list (sched_addprioritized() returns true) and the
\* DEBUGASSERT of line 388 fails.
C14_AssignedTargetEndsAtHead ==
  \A me \in CPUs :
    OvertakenAssigned(me) => (loc[me].switched /\ 388 \in asserts)

\* C14 as the code has it: in no interleaving does a task whose desired state
\* is ASSIGNED go in at the head; it is linked behind the head and the
\* DEBUGASSERT of line 388 never fails.
C14_AssignedTargetStaysBehind ==
  /\ 388 \notin asserts
  /\ \A me \in CPUs :
       (Inserted(me) /\ loc[me].task_state = "TSTATE_TASK_ASSIGNED") =>
         /\ ~loc[me].switched
         /\ loc[me].btcb \in Tail2(g_assignedtasks[loc[me].cpu])
         /\ tcb[loc[me].btcb].task_state = "TSTATE_TASK_ASSIGNED"

\* The interleaving of the claim has happened: the head the call read was
\* replaced by a task of higher priority before the call linked its task.
C14_Witness ==
  \E me \in CPUs :
    /\ OvertakenAssigned(me)
    /\ Prio(Head(g_assignedtasks[loc[me].cpu])) > Prio(loc[me].rtcb)
    /\ Prio(Head(g_assignedtasks[loc[me].cpu])) > Prio(loc[me].btcb)

---------------------------------------------------------------------------
(* C15 *)

\* sched_cpulocked(me) has returned to CPU me.
CpulockedReturned(me) == pc[me] = "decided"

\* The value sched_cpulocked(me) has to return.
C15_ResultAsSpecified ==
  \A me \in CPUs :
    CpulockedReturned(me) =>
      /\ loc[me].cpulocked <=>
           /\ g_os_initstate >= OSINIT_OSREADY
           /\ g_cpu_irqset # 0
           /\ ~BitIsSet(g_cpu_irqset, me)
      /\ g_os_initstate < OSINIT_OSREADY => ~loc[me].cpulocked
      /\ g_cpu_irqset = 0 => ~loc[me].cpulocked

\* C15: sched_cpulocked(me) returns true exactly when g_os_initstate is at
\* least OSINIT_OSREADY, g_cpu_irqset is not zero and bit me of it is clear; it
\* returns false before OSINIT_OSREADY whatever g_cpu_irqset is, and false when
\* g_cpu_irqset is zero; and no step of it changes g_cpu_irqset (or
\* g_cpu_irqlock).
C15_CpulockedResult ==
  /\ [] C15_ResultAsSpecified
  /\ [][g_cpu_irqset' = g_cpu_irqset /\ g_cpu_irqlock' = g_cpu_irqlock]_vars

\* sched_cpulocked() has returned true: another CPU holds the IRQ lock.
C15_Witness ==
  \E me \in CPUs :
    /\ CpulockedReturned(me)
    /\ loc[me].cpulocked
    /\ g_cpu_irqset # 0
    /\ ~BitIsSet(g_cpu_irqset, me)

\* sched_cpulocked() has returned false before OSINIT_OSREADY although another
\* CPU's bit is set.
C15_EarlyInitReached ==
  \E me \in CPUs :
    /\ CpulockedReturned(me)
    /\ g_os_initstate < OSINIT_OSREADY
    /\ g_cpu_irqset # 0
    /\ ~BitIsSet(g_cpu_irqset, me)
    /\ ~loc[me].cpulocked

---------------------------------------------------------------------------
(* C16 *)

\* The last call took the branch that makes the task wait: line 183 in the
\* uniprocessor build, lines 329-330 in the SMP build.
TookPendBranch ==
  \/ /\ UpCalled
     /\ up_preempt_blocked(call.entry.tcb, Head(call.entry.readytorun), call.btcb)
  \/ /\ SmpCalled
     /\ call.branch = "pending"

\* C16: when the call makes the task wait in g_pendingtasks, it inserts the
\* task into g_pendingtasks by priority and sets its state to PENDING, and
\* changes nothing else: g_readytorun, every g_assignedtasks[c], the lock sets
\* and their spinlocks, the task's cpu and other fields and every other TCB are
\* as on entry, no CPU is paused and the call returns false.
C16_PendChangesOnlyPending ==
  TookPendBranch =>
    LET b == call.btcb
        E == call.entry
    IN  /\ g_pendingtasks = sched_addprioritized(E.tcb, b, E.pendingtasks).list
        /\ tcb = [E.tcb EXCEPT ![b].task_state = "TSTATE_TASK_PENDING"]
        /\ g_readytorun = E.readytorun
        /\ g_assignedtasks = E.assignedtasks
        /\ g_cpu_lockset = E.lockset
        /\ g_cpu_schedlock = E.schedlock
        /\ g_cpu_irqset = E.irqset
        /\ g_cpu_irqlock = E.irqlock
        /\ call.paused = {}
        /\ ~call.ret

\* An SMP call has made its task wait while another task keeps a CPU.
C16_Witness ==
  /\ SmpCalled
  /\ call.branch = "pending"
  /\ g_pendingtasks = <<call.btcb>>
  /\ tcb[call.btcb].task_state = "TSTATE_TASK_PENDING"
  /\ \E c \in CPUs : Head(g_assignedtasks[c]) \in UserTasks

\* A uniprocessor call has made its task wait.
C16_UpReached ==
  /\ UpCalled
  /\ TookPendBranch
  /\ call.btcb \in Elems(g_pendingtasks)

---------------------------------------------------------------------------
(* C17 *)

\* The running task the last call compared its task with: the head of
\* g_readytorun (line 174), or the head of the list of the CPU of lines
\* 268-285.
ComparedHead ==
  IF CONFIG_SMP
  THEN Head(call.entry.assignedtasks[
              candidate_cpu(call.entry.tcb, call.entry.assignedtasks, call.btcb)])
  ELSE Head(call.entry.readytorun)

\* The last call admitted a task of the priority of the task it compared it
\* with.
EqualPriorityCall ==
  /\ Called
  /\ Prio(call.btcb) = call.entry.tcb[ComparedHead].sched_priority

\* The list holds the task of the last call behind every task of its priority
\* or above and before every task of lower priority.
AfterEquals(list) ==
  \A i, j \in 1 .. Len(list) :
    (list[j] = call.btcb /\ i # j) =>
      IF i < j THEN Prio(list[i]) >= Prio(call.btcb)
               ELSE Prio(list[i]) < Prio(call.btcb)

\* The task of the last call went in behind the tasks of equal priority that
\* were in its list.
InsertedAfterEquals ==
  /\ AfterEquals(g_readytorun)
  /\ AfterEquals(g_pendingtasks)
  /\ \A c \in CPUs : AfterEquals(g_assignedtasks[c])

\* Every CPU runs the task it ran on entry to the last call.
RunningUnchanged ==
  IF CONFIG_SMP THEN HeadsUnchanged
                ELSE Head(g_readytorun) = Head(call.entry.readytorun)

\* C17: a task admitted with the priority of the running task it is compared
\* with never pre-empts it and never makes the call return true; and a task
\* goes into its list behind all tasks of equal priority that are in it.
C17_EqualPriorityNeverPreempts ==
  /\ EqualPriorityCall => (RunningUnchanged /\ ~call.ret)
  /\ Called => InsertedAfterEquals

\* What the code does guarantee: the same, but for the value returned when the
\* task is locked to the caller's own CPU (lines 466-492 leave doswitch
\* unassigned).
C17_AllButReturnValue ==
  /\ EqualPriorityCall =>
       /\ RunningUnchanged
       /\ ~(SmpCalled /\ call.branch = "assigned" /\ call.cpu = call.me)
            => ~call.ret
  /\ Called => InsertedAfterEquals

\* A task of the priority of a running user task was admitted and waits.
C17_EqualReached ==
  /\ EqualPriorityCall
  /\ ComparedHead \in UserTasks
  /\ tcb[call.btcb].task_state \in
       {"TSTATE_TASK_READYTORUN", "TSTATE_TASK_ASSIGNED"}

---------------------------------------------------------------------------
(* C18 *)

\* g_cpu_irqsetlock is held only by a CPU that is inside sched_cpulocked().
SetlockReleased ==
  spin_islocked(g_cpu_irqsetlock) <=> (\E me \in CPUs : pc[me] = "cpulocked")

\* C18: with the CPUs scheduled fairly and every CPU that is not blocked
\* taking the pause interrupts addressed to it, every call that has started
\* returns, also when two CPUs each pause the other; and g_cpu_irqsetlock is
\* released before sched_cpulocked() returns its result.
C18_EveryCallReturns ==
  /\ \A me \in CPUs : (pc[me] = "selected") ~> Returned(me)
  /\ [] SetlockReleased

\* Two calls wait for each other in up_cpu_pause(): each has asked the other
\* CPU to pause, and neither CPU takes the interrupt while its call waits.
MutualPause ==
  \E a, b \in CPUs :
    /\ a # b
    /\ pc[a] = "pausing" /\ loc[a].cpu = b /\ pausedby[b] = a
    /\ pc[b] = "pausing" /\ loc[b].cpu = a /\ pausedby[a] = b
    /\ ~g_cpu_paused[a] /\ ~g_cpu_paused[b]

\* The same without the liveness: a state in which a call is under way has a
\* step of some call or CPU enabled.
C18_NoCallStuck ==
  (\E me \in CPUs : pc[me] \notin {"idle", "done"}) => ENABLED NextSteps

---------------------------------------------------------------------------
(* C19 *)

\* C19: every task linked into g_assignedtasks[c], at the head or behind it,
\* has c in its affinity: the calls never place a task on a CPU outside its
\* affinity.
C19_AssignedWithinAffinity ==
  CONFIG_SMP =>
    \A c \in CPUs :
      \A t \in Elems(g_assignedtasks[c]) : c \in tcb[t].affinity

\* A task that may run on CPU 1 only runs there, and a task locked to CPU 1
\* is queued behind it.
C19_Witness ==
  /\ SmpCalled
  /\ Len(g_assignedtasks[1]) = 3
  /\ tcb[g_assignedtasks[1][1]].affinity = {1}
  /\ ~tcb[g_assignedtasks[1][1]].cpu_locked
  /\ tcb[g_assignedtasks[1][2]].cpu_locked
  /\ g_assignedtasks[1][2] \in UserTasks

---------------------------------------------------------------------------
(* C20 *)

\* The last call was an SMP call that linked its task into
\* g_assignedtasks[call.cpu].
Assigned == SmpCalled /\ call.branch = "assigned"

\* C20: an SMP call changes at most one assigned list.  When it links its task
\* into g_assignedtasks[c], the list of every other CPU and that CPU's bits in
\* g_cpu_lockset and g_cpu_irqset are as on entry; the only TCBs whose state or
\* cpu differ from the entry state are the task's and, when the task became
\* the head, the displaced head's; and the new head has a priority strictly
\* above that of the head it displaced.  A call that does not link into an
\* assigned list changes none.
C20_OneAssignedListChanges ==
  /\ (SmpCalled /\ ~Assigned) => g_assignedtasks = call.entry.assignedtasks
  /\ Assigned =>
       LET c == call.cpu
           b == call.btcb
           E == call.entry
       IN  /\ \A o \in CPUs \ {c} :
                /\ g_assignedtasks[o] = E.assignedtasks[o]
                /\ BitIsSet(g_cpu_lockset, o) <=> BitIsSet(E.lockset, o)
                /\ BitIsSet(g_cpu_irqset, o) <=> BitIsSet(E.irqset, o)
           /\ \A t \in TaskIds :
                (tcb[t].task_state # E.tcb[t].task_state \/ tcb[t].cpu # E.tcb[t].cpu)
                  => (t = b \/ (call.switched /\ t = EntryHead(c)))
           /\ Head(g_assignedtasks[c]) # EntryHead(c) =>
                /\ Head(g_assignedtasks[c]) = b
                /\ Prio(b) > Prio(EntryHead(c))

\* A call on a CPU that holds the IRQ lock has put its task at the head of
\* the other CPU's list.
C20_Witness ==
  /\ Preempted
  /\ call.cpu # call.me
  /\ BitIsSet(call.entry.irqset, call.me)
  /\ BitIsSet(g_cpu_irqset, call.me)
  /\ tcb[call.btcb].irqcount = 0
  /\ Prio(call.btcb) > Prio(EntryHead(call.cpu))

============================================================================
